---- MODULE Spec2Model ----
(***************************************************************************)
(* Model of the resutils utilities: the quantile classifier                *)
(* (resutils/output.py: quantile, quantile_colors), the indicator          *)
(* aggregator (search, production_per_plant, get_indicators) and the       *)
(* raster helpers (resutils/raster.py: diff_raster, raster_resize).        *)
(*                                                                         *)
(* Numbers are exact: a float is modelled by the integer or rational it    *)
(* denotes (rationals as numerator/denominator or as scaled integers).     *)
(* Rasters are finite arrays of integers; 2-D arrays are kept 2-D where    *)
(* the indices matter (raster_resize) and flattened in row-major order     *)
(* where the code is element-wise (quantile_colors, diff_raster).          *)
(***************************************************************************)
EXTENDS Integers, Sequences, FiniteSets, TLC

VARIABLES
    pc,              \* position of the running call
    \* quantile / quantile_colors
    array,           \* input array (flattened)
    no_data_value,   \* the no-data sentinel
    qnumb,           \* requested number of quantile limits
    round_decimals,  \* current rounding precision of quantile()
    quantiles,       \* rounded breakpoints q0, as integers times scale
    array_cats,      \* classified array
    symbology,       \* legend table
    \* search
    indicator_list, name, found,
    \* get_indicators / production_per_plant
    kind, plant, n_plant_raster, locals, indicators, e_plant,
    \* diff_raster
    raster_in, raster_out, error,
    \* raster_resize
    ras1, ras2,      \* the two rasters: array (or its shape) and geotransform
    blocks,          \* i, i_incr, j, j_incr of every iteration of the loops
    new_matrix

qvars == <<array, no_data_value, qnumb, round_decimals, quantiles,
           array_cats, symbology>>
svars == <<indicator_list, name, found>>
ivars == <<kind, plant, n_plant_raster, locals, indicators, e_plant>>
dvars == <<raster_in, raster_out, error>>
rvars == <<ras1, ras2, blocks, new_matrix>>
vars == <<pc, qvars, svars, ivars, dvars, rvars>>

None == "None"
\* a missing cell (np.nan): an integer no cell otherwise holds
NaN == -1000000

(***************************************************************************)
(* Bounds of the model.                                                    *)
(***************************************************************************)
MaxCells == 3
MaxQnumb == 3
MaxDecimals == 2

(***************************************************************************)
(* Arithmetic helpers.                                                     *)
(***************************************************************************)
Abs(x) == IF x < 0 THEN -x ELSE x

Min(a, b) == IF a < b THEN a ELSE b

Max(a, b) == IF a > b THEN a ELSE b

RECURSIVE Pow10(_)
Pow10(n) == IF n <= 0 THEN 1 ELSE 10 * Pow10(n - 1)

\* int(num/den): truncation toward zero, den # 0
Trunc(num, den) ==
    LET q == Abs(num) \div Abs(den)
    IN  IF (num < 0) = (den < 0) THEN q ELSE -q

\* round half to even of num/den, den > 0 (np.round, np.rint, round)
RoundHalfEven(num, den) ==
    LET fl == num \div den
        rem == num % den
    IN  IF 2 * rem < den THEN fl
        ELSE IF 2 * rem > den THEN fl + 1
        ELSE IF fl % 2 = 0 THEN fl ELSE fl + 1

RECURSIVE SeqSum(_)
SeqSum(s) == IF s = <<>> THEN 0 ELSE Head(s) + SeqSum(Tail(s))

Range(s) == {s[i] : i \in DOMAIN s}

SeqsUpTo(S, n) == UNION {[1..k -> S] : k \in 1..n}

(***************************************************************************)
(* Idle values of the variables a call does not use.                       *)
(***************************************************************************)
QIdle ==
    /\ array = <<>> /\ no_data_value = 0 /\ qnumb = 0 /\ round_decimals = 0
    /\ quantiles = <<>> /\ array_cats = <<>> /\ symbology = <<>>

SIdle == indicator_list = <<>> /\ name = <<>> /\ found = None

IIdle ==
    /\ kind = <<>> /\ plant = None /\ n_plant_raster = <<>>
    /\ locals = None /\ indicators = <<>> /\ e_plant = None

DIdle == raster_in = <<>> /\ raster_out = <<>> /\ error = None

RIdle == ras1 = None /\ ras2 = None /\ blocks = <<>> /\ new_matrix = <<>>

(***************************************************************************)
(* quantile (output.py 170-184)                                            *)
(***************************************************************************)
Values == {-5, 0, 40, 41, 151, 349}
NoData == {0, 151}
StartDecimals == {-2, -1, 0}

\* array[valid]: boolean-mask selection of the cells that differ from the sentinel
ValidCells(arr, nd) == SelectSeq(arr, LAMBDA v : v # nd)

\* denominator of the fractions np.linspace(0, 1.0, qnumb) returns: k/(qnumb-1)
QDen(n) == Max(n - 1, 1)

\* np.quantile(array, qvalues), linear interpolation: the k-th value as a
\* numerator over QDen(n)
NpQuantile(a, n) ==
    LET s == SortSeq(a, LAMBDA x, y : x < y)
        len == Len(s)
        D == QDen(n)
    IN  [k \in 1..n |->
            LET pos == (k - 1) * (len - 1)
                lo == pos \div D
                r == pos % D
                hi == Min(lo + 1, len - 1)
            IN  s[lo + 1] * (D - r) + s[hi + 1] * r]

\* scale of the integers that stand for values rounded to d decimals
Scale(d) == Pow10(Max(d, 0))

\* np.round(num/den, d), as an integer times Scale(d)
NpRound(num, den, d) ==
    IF d >= 0 THEN RoundHalfEven(num * Pow10(d), den)
    ELSE RoundHalfEven(num, den * Pow10(-d)) * Pow10(-d)

\* q0 = np.round(quantiles, round_decimals)
Q0(a, n, d) ==
    LET qs == NpQuantile(a, n)
    IN  [k \in 1..n |-> NpRound(qs[k], QDen(n), d)]

\* A mutation of the test: only the two ends are compared.
CollapsedEnds(q) == Len(q) > 1 /\ q[1] = q[Len(q)]

\* A mutation of the test: the loop stops unless all values are one value.
CollapsedAll(q) == Len(q) > 1 /\ Cardinality(Range(q)) = 1

\* len(set(q0)) != len(quantiles)
Collapsed(q) == Cardinality(Range(q)) # Len(q)

\* the while loop, one retry: print("Increase decimals"); round_decimals += 1
QuantileRetry ==
    /\ pc = "quantile"
    /\ Collapsed(Q0(ValidCells(array, no_data_value), qnumb, round_decimals))
    /\ round_decimals < MaxDecimals
    /\ round_decimals' = round_decimals + 1
    /\ UNCHANGED <<pc, array, no_data_value, qnumb, quantiles, array_cats,
                   symbology, svars, ivars, dvars, rvars>>

\* the while loop, break; return qvalues, q0
QuantileReturn ==
    /\ pc = "quantile"
    /\ ~Collapsed(Q0(ValidCells(array, no_data_value), qnumb, round_decimals))
    /\ quantiles' = Q0(ValidCells(array, no_data_value), qnumb, round_decimals)
    /\ pc' = "classify"
    /\ UNCHANGED <<array, no_data_value, qnumb, round_decimals, array_cats,
                   symbology, svars, ivars, dvars, rvars>>

(***************************************************************************)
(* quantile_colors (output.py 210-263)                                     *)
(***************************************************************************)
\* for i, (qk, qv) in enumerate(zip(qvalues[1:], quantiles[1:])):
\*     qindex = (qv0 < array) & (array <= qv); array_cats[qindex] = i + 1
\* i is the class index (the code's i + 1); the mask spans the whole array
RECURSIVE CatsLoop(_, _, _, _, _, _)
CatsLoop(arr, brk, S, i, qv0, cats) ==
    IF i > Len(brk) - 1 THEN cats
    ELSE LET qv == brk[i + 1]
             upd == [c \in DOMAIN arr |->
                        IF qv0 < arr[c] * S /\ arr[c] * S <= qv
                        THEN i ELSE cats[c]]
         IN  CatsLoop(arr, brk, S, i + 1, qv, upd)

\* array_cats after the loop; zeros_like, array_cats[~valid] = 0,
\* qv0 = quantiles[0] - 1.0
ArrayCats(arr, brk, S) ==
    CatsLoop(arr, brk, S, 1, brk[1] - S, [c \in DOMAIN arr |-> 0])

\* A mutation of the table: one class entry per breakpoint.
SymbologyPerBreak(nd, brk, S) ==
    <<[value |-> nd, label |-> "no data", color |-> "no_data_color"]>>
    \o [i \in 1..Len(brk) |->
           [value |-> i, label |-> <<brk[i] - S, brk[i]>>, color |-> i - 1]]

\* the symbology list: the no-data entry, then one entry per loop iteration
\* (label "{qv0} < Solar potential <= {qv1}"), coloured by
\* zip(CMAP_SUN(qvalues), symbology[1:]): entry i takes the colour of qvalues[i-1]
Symbology(nd, brk, S) ==
    LET classes == [i \in 1..(Len(brk) - 1) |->
                       [value |-> i,
                        label |-> <<IF i = 1 THEN brk[1] - S ELSE brk[i], brk[i + 1]>>]]
        ncolor == Min(Len(brk), Len(classes))
    IN  <<[value |-> nd, label |-> "no data", color |-> "no_data_color"]>>
        \o [i \in 1..Len(classes) |->
               IF i <= ncolor
               THEN [value |-> classes[i].value, label |-> classes[i].label,
                     color |-> i - 1]
               ELSE classes[i]]

\* the body of quantile_colors after the call of quantile
QuantileColors ==
    /\ pc = "classify"
    /\ array_cats' = ArrayCats(array, quantiles, Scale(round_decimals))
    /\ symbology' = Symbology(no_data_value, quantiles, Scale(round_decimals))
    /\ pc' = "done"
    /\ UNCHANGED <<array, no_data_value, qnumb, round_decimals, quantiles,
                   svars, ivars, dvars, rvars>>

InitQuantile ==
    /\ pc = "quantile"
    /\ no_data_value \in NoData
    /\ array \in SeqsUpTo(Values, MaxCells)
    /\ ValidCells(array, no_data_value) # <<>>
    /\ qnumb \in 1..MaxQnumb
    /\ round_decimals \in StartDecimals
    /\ quantiles = <<>> /\ array_cats = <<>> /\ symbology = <<>>
    /\ SIdle /\ IIdle /\ DIdle /\ RIdle

NextQuantile == QuantileRetry \/ QuantileReturn \/ QuantileColors

SpecQuantile == InitQuantile /\ [][NextQuantile]_vars

\* the loop and the straight-line code after it always take their next step
FairSpecQuantile == SpecQuantile /\ WF_vars(NextQuantile)

(***************************************************************************)
(* Properties of quantile and quantile_colors.                             *)
(***************************************************************************)
\* the exact (unrounded) quantile values of the valid cells
ExactQuantiles == NpQuantile(ValidCells(array, no_data_value), qnumb)

ExactDistinct == Cardinality(Range(ExactQuantiles)) = qnumb

\* C1: in the classified array every sentinel cell has class 0 and every
\* valid cell has a class in 1..qnumb-1, for qnumb >= 2.
C1_CellsPartitioned ==
    (pc = "done" /\ qnumb >= 2) =>
        \A c \in DOMAIN array :
            /\ array[c] = no_data_value => array_cats[c] = 0
            /\ array[c] # no_data_value => array_cats[c] \in 1..(qnumb - 1)

\* C3 as stated: the symbology has qnumb class entries plus the no-data
\* entry, qnumb + 1 records, the no-data entry first.
C3_SymbologyNPlusOne ==
    pc = "done" =>
        /\ Len(symbology) = qnumb + 1
        /\ symbology[1].label = "no data"

\* C3 amended: when quantile_colors returns, the symbology has qnumb - 1
\* class entries (values 1..qnumb-1, in order) after the no-data entry, qnumb
\* records in total.
C3_SymbologyN ==
    pc = "done" =>
        /\ Len(symbology) = qnumb
        /\ symbology[1].label = "no data"
        /\ symbology[1].value = no_data_value
        /\ \A i \in 2..Len(symbology) :
               symbology[i].value = i - 1 /\ symbology[i].label # "no data"

C3_Witness == pc = "done" /\ qnumb = 3 /\ Len(symbology) = 3

Digits == <<"0", "1", "2", "3", "4", "5", "6", "7", "8", "9">>

DigitOf(c) == (CHOOSE i \in DOMAIN Digits : Digits[i] = c) - 1

RECURSIVE ParseInt(_)
ParseInt(s) ==
    IF s = <<>> THEN 0
    ELSE ParseInt(SubSeq(s, 1, Len(s) - 1)) * 10 + DigitOf(s[Len(s)])

\* float(s) for a decimal literal with at most two fraction digits, in hundredths
Float(s) ==
    LET dots == {i \in DOMAIN s : s[i] = "."}
    IN  IF dots = {} THEN ParseInt(s) * 100
        ELSE LET d == CHOOSE i \in dots : TRUE
                 frac == SubSeq(s, d + 1, Len(s))
             IN  ParseInt(SubSeq(s, 1, d - 1)) * 100
                 + (IF Len(frac) = 1 THEN ParseInt(frac) * 10 ELSE ParseInt(frac))

\* str(n) of an integer n >= 0
RECURSIVE StrInt(_)
StrInt(n) ==
    IF n < 10 THEN <<Digits[n + 1]>>
    ELSE StrInt(n \div 10) \o <<Digits[(n % 10) + 1]>>

\* str(x) of a float x >= 0 that has at most two decimals; h is x in hundredths
StrFloat(h) ==
    StrInt(h \div 100) \o <<".">>
    \o (IF h % 10 = 0 THEN <<Digits[((h % 100) \div 10) + 1]>>
        ELSE <<Digits[((h % 100) \div 10) + 1], Digits[(h % 10) + 1]>>)

LowerChar(c) ==
    CASE c = "P" -> "p" [] c = "V" -> "v" [] c = "W" -> "w" [] OTHER -> c

\* str.lower() of the characters of a kind
Lower(s) == [i \in DOMAIN s |-> LowerChar(s[i])]

(***************************************************************************)
(* search (output.py 21-45)                                                *)
(***************************************************************************)
MaxRecords == 2

\* A mutation of the scan: the last matching record wins.
RECURSIVE SearchLast(_, _)
SearchLast(list, nm) ==
    IF list = <<>> THEN None
    ELSE LET dic == list[Len(list)]
         IN  IF dic.name = nm THEN <<Float(dic.value), dic.unit>>
             ELSE SearchLast(SubSeq(list, 1, Len(list) - 1), nm)

\* for dic in indicator_list: if dic["name"] == name: return float(...), unit
RECURSIVE Search(_, _)
Search(list, nm) ==
    IF list = <<>> THEN None
    ELSE LET dic == Head(list)
         IN  IF dic.name = nm THEN <<Float(dic.value), dic.unit>>
             ELSE Search(Tail(list), nm)

SearchNames == {<<"a">>, <<"A">>, <<"a", "b">>}
SearchValues == {<<"7">>, <<"0", "7">>, <<"1", ".", "5">>}
SearchUnits == {"MWh/yr", "-"}

SearchCall ==
    /\ pc = "search"
    /\ found' = Search(indicator_list, name)
    /\ pc' = "done"
    /\ UNCHANGED <<indicator_list, name, qvars, ivars, dvars, rvars>>

InitSearch ==
    /\ pc = "search"
    /\ indicator_list \in
         {<<>>} \cup SeqsUpTo([unit : SearchUnits, name : SearchNames \ {<<"a", "b">>},
                               value : SearchValues], MaxRecords)
    /\ name \in SearchNames
    /\ found = None
    /\ QIdle /\ IIdle /\ DIdle /\ RIdle

NextSearch == SearchCall

SpecSearch == InitSearch /\ [][NextSearch]_vars

\* the indices of the records called name
Matches == {i \in DOMAIN indicator_list : indicator_list[i].name = name}

\* C2: search returns (float(value), unit) of the first record whose name is
\* name, None when there is none, and leaves the list as it was.
C2_FirstMatch ==
    /\ [](pc = "done" =>
            IF Matches = {} THEN found = None
            ELSE \E i \in Matches :
                    /\ \A j \in Matches : i <= j
                    /\ found = <<Float(indicator_list[i].value),
                                 indicator_list[i].unit>>)
    /\ [][indicator_list' = indicator_list]_vars

C2_Witness ==
    /\ pc = "done" /\ Len(indicator_list) = 2
    /\ Matches = {1, 2}
    /\ indicator_list[1].value = <<"0", "7">>
    /\ indicator_list[2].value = <<"1", ".", "5">>
    /\ found = <<700, indicator_list[1].unit>>
    /\ indicator_list[1].unit # indicator_list[2].unit

(***************************************************************************)
(* get_indicators (output.py 67-105), production_per_plant (48-64)         *)
(***************************************************************************)
Kinds == {<<"P", "V">>, <<"p", "v">>, <<"W", "i", "n", "d">>}
EnergyProductions == {1234, 800000}
PlantCounts == {1, 2}
InvestementCosts == {500000, 1500000}
CountCells == {0, 1, 2}
LcoeValues == {17, 25}

\* resu.best_unit(value, current_unit="kWh/yr", ...): the value as a
\* numerator over the scale factor, the display unit and the factor
BestUnit(v) ==
    IF v >= 1000000 THEN [num |-> v, unit |-> "GWh/yr", factor |-> 1000000]
    ELSE IF v >= 1000 THEN [num |-> v, unit |-> "MWh/yr", factor |-> 1000]
    ELSE [num |-> v, unit |-> "kWh/yr", factor |-> 1]

\* "{} total energy production".format(kind)
EnergyName(k) == k \o <<" total energy production">>

\* "{} total setup costs".format(kind)
CostName(k) == k \o <<" total setup costs">>

\* "Number of installed {} systems".format(kind.lower())
CountName(k) == <<"Number of installed ">> \o Lower(k) \o <<" systems">>

\* "Levelized cost of {} energy".format(kind.lower())
LcoeName(k) == <<"Levelized cost of ">> \o Lower(k) \o <<" energy">>

\* "Number of installed {} Systems".format(kind), the name production_per_plant asks for
PlantCountName(k) == <<"Number of installed ">> \o k \o <<" Systems">>

\* the local variables of get_indicators before the return
IndicatorLocals(p, raster) ==
    LET n_plants == SeqSum(raster)
    IN  [n_plants |-> n_plants,
         tot_en_gen_per_year |-> p.energy_production * p.n_plants,
         tot_setup_costs |-> p.investement_cost * n_plants]

\* the list get_indicators returns; lcoe_plant is in hundredths
IndicatorList(k, l, lcoe_plant) ==
    LET best == BestUnit(l.tot_en_gen_per_year)
    IN  <<[unit |-> best.unit, name |-> EnergyName(k),
           value |-> StrFloat(RoundHalfEven(best.num * 100, best.factor))],
          [unit |-> "Million of EUR", name |-> CostName(k),
           value |-> StrInt(RoundHalfEven(l.tot_setup_costs, 1000000))],
          [unit |-> "-", name |-> CountName(k),
           value |-> StrInt(l.n_plants)],
          [unit |-> "EUR/kWh", name |-> LcoeName(k),
           value |-> StrFloat(lcoe_plant)]>>

\* get_indicators: the result of plant.financial.lcoe is an input
GetIndicators ==
    /\ pc = "get_indicators"
    /\ \E lcoe_plant \in LcoeValues :
          /\ locals' = IndicatorLocals(plant, n_plant_raster)
          /\ indicators' = IndicatorList(kind, locals', lcoe_plant)
    /\ pc' = "report"
    /\ UNCHANGED <<kind, plant, n_plant_raster, e_plant, qvars, svars, dvars, rvars>>

\* production_per_plant(json, kind) on json["result"]["indicator"] = indicators:
\* unpacking None raises TypeError; energy / n_plants is kept as a pair
ProductionPerPlant ==
    /\ pc = "report"
    /\ LET first == Search(indicators, EnergyName(kind))
           second == Search(indicators, PlantCountName(kind))
       IN  e_plant' = IF first = None \/ second = None THEN "TypeError"
                      ELSE <<first[1], second[1], first[2]>>
    /\ pc' = "done"
    /\ UNCHANGED <<kind, plant, n_plant_raster, locals, indicators,
                   qvars, svars, dvars, rvars>>

InitIndicators ==
    /\ pc = "get_indicators"
    /\ kind \in Kinds
    /\ plant \in [energy_production : EnergyProductions, n_plants : PlantCounts,
                  investement_cost : InvestementCosts]
    /\ n_plant_raster \in SeqsUpTo(CountCells, MaxCells)
    /\ locals = None /\ indicators = <<>> /\ e_plant = None
    /\ QIdle /\ SIdle /\ DIdle /\ RIdle

NextIndicators == GetIndicators \/ ProductionPerPlant

SpecIndicators == InitIndicators /\ [][NextIndicators]_vars

\* C7: four records, in the order energy, cost, count, LCOE; the count is the
\* sum of the count raster, and the total energy and the total cost are the
\* per-plant figures times that count.
C7_SameCount ==
    pc \in {"report", "done"} =>
        /\ Len(indicators) = 4
        /\ indicators[1].name = EnergyName(kind)
        /\ indicators[2].name = CostName(kind)
        /\ indicators[3].name = CountName(kind)
        /\ indicators[4].name = LcoeName(kind)
        /\ Float(indicators[3].value) = 100 * SeqSum(n_plant_raster)
        /\ locals.tot_setup_costs = plant.investement_cost * SeqSum(n_plant_raster)
        /\ locals.tot_en_gen_per_year
              = plant.energy_production * SeqSum(n_plant_raster)

\* C10: the list get_indicators returns holds both names production_per_plant
\* looks up, so neither search returns None.
C10_LookupsFound ==
    /\ pc \in {"report", "done"} =>
          /\ Search(indicators, EnergyName(kind)) # None
          /\ Search(indicators, PlantCountName(kind)) # None
    /\ pc = "done" => e_plant # "TypeError"

(***************************************************************************)
(* diff_raster (raster.py 45-61)                                           *)
(***************************************************************************)
DiffValues == {0, 1, 3, NaN}
DoctestIn == <<1, 2, 3, 4>>
DoctestOut == <<1, 2, 3, 0>>

\* np.nansum: a missing cell counts as zero
RECURSIVE NanSum(_)
NanSum(s) ==
    IF s = <<>> THEN 0
    ELSE (IF Head(s) = NaN THEN 0 ELSE Head(s)) + NanSum(Tail(s))

\* A mutation: the difference is divided by the sum of the output raster.
DiffErrorByOut(rin, rout) ==
    LET diff == NanSum(rin) - NanSum(rout)
    IN  [num |-> diff, den |-> NanSum(rout)]

\* diff = nansum(in) - nansum(out); error = diff / nansum(in), kept as the
\* fraction num/den; den = 0 stands for the nan or infinity of a division by zero
DiffError(rin, rout) ==
    LET diff == NanSum(rin) - NanSum(rout)
    IN  [num |-> diff, den |-> NanSum(rin)]

DiffRaster ==
    /\ pc = "diff_raster"
    /\ error' = DiffError(raster_in, raster_out)
    /\ pc' = "done"
    /\ UNCHANGED <<raster_in, raster_out, qvars, svars, ivars, rvars>>

InitDiff ==
    /\ pc = "diff_raster"
    /\ \E pair \in (SeqsUpTo(DiffValues, MaxCells) \X SeqsUpTo(DiffValues, MaxCells))
                     \cup {<<DoctestIn, DoctestOut>>} :
          raster_in = pair[1] /\ raster_out = pair[2]
    /\ error = None
    /\ QIdle /\ SIdle /\ IIdle /\ RIdle

NextDiff == DiffRaster

SpecDiff == InitDiff /\ [][NextDiff]_vars

\* the sum of the cells that are not missing
NonMissingSum(s) == SeqSum(SelectSeq(s, LAMBDA v : v # NaN))

\* C8: diff_raster returns (S_in - S_out) / S_in over the non-missing sums: 0
\* when the sums agree and S_in # 0, 4/10 on the doctest; the inputs are kept.
C8_RelativeError ==
    /\ [](pc = "done" /\ NonMissingSum(raster_in) # 0 =>
            /\ error.num * NonMissingSum(raster_in)
                 = (NonMissingSum(raster_in) - NonMissingSum(raster_out)) * error.den
            /\ error.den # 0
            /\ (NonMissingSum(raster_in) = NonMissingSum(raster_out) => error.num = 0)
            /\ (raster_in = DoctestIn /\ raster_out = DoctestOut
                  => error.num * 10 = 4 * error.den))
    /\ [][raster_in' = raster_in /\ raster_out' = raster_out]_vars

C8_Witness ==
    /\ pc = "done" /\ raster_in = DoctestIn /\ raster_out = DoctestOut
    /\ error = [num |-> 4, den |-> 10]

(***************************************************************************)
(* raster_resize (raster.py 64-94)                                         *)
(***************************************************************************)
MaxSrc == 2
MaxDst == 3
SrcOriginsX == {0, 1}
DstOriginsX == {-2, 0, 3}
SrcOriginsY == {0}
DstOriginsY == {-2, 0, 3}
SrcWidths == {1, 2, 3}
DstWidths == {1, 2}
SrcHeights == {-1, -2, 2}
DstHeights == {-1, -2}

\* np.nan_to_num of a cell
NanToNum(v) == IF v = NaN THEN 0 ELSE v

\* ds[k] of a geotransform tuple, k counted from 0
GT(ds, k) == ds[k + 1]

\* the indices a Python slice lo:hi selects on an axis of length n
PySlice(lo, hi, n) ==
    LET norm(k) == IF k < 0 THEN Max(k + n, 0) ELSE Min(k, n)
    IN  {k \in 0..(n - 1) : norm(lo) <= k /\ k < norm(hi)}

\* x_offset = int((ds_2[0] - ds_1[0]) / ds_2[1])
XOffset(ds_1, ds_2) == Trunc(GT(ds_2, 0) - GT(ds_1, 0), GT(ds_2, 1))

\* y_offset = int((ds_2[3] - ds_1[3]) / (-ds_2[5]))
YOffset(ds_1, ds_2) == Trunc(GT(ds_2, 3) - GT(ds_1, 3), -GT(ds_2, 5))

\* i = max(0, int(y * y_incr) + y_offset), y_incr = ds_1[5]/ds_2[5]
RowStart(ds_1, ds_2, y) ==
    Max(0, Trunc(y * GT(ds_1, 5), GT(ds_2, 5)) + YOffset(ds_1, ds_2))

\* i_incr = min(i + int(y_incr), new_matrix.shape[0])
RowEnd(ds_1, ds_2, i, rows) == Min(i + Trunc(GT(ds_1, 5), GT(ds_2, 5)), rows)

\* A mutation: the column offset is added, as the row offset is.
ColStartAdd(ds_1, ds_2, x) ==
    Max(0, Trunc(x * GT(ds_1, 1), GT(ds_2, 1)) + XOffset(ds_1, ds_2))

\* j = max(0, int(x * x_incr) - x_offset), x_incr = ds_1[1]/ds_2[1]
ColStart(ds_1, ds_2, x) ==
    Max(0, Trunc(x * GT(ds_1, 1), GT(ds_2, 1)) - XOffset(ds_1, ds_2))

\* j_incr = min(j + int(x_incr), new_matrix.shape[1])
ColEnd(ds_1, ds_2, j, cols) == Min(j + Trunc(GT(ds_1, 1), GT(ds_2, 1)), cols)

\* the loop variables of the iterations, in the order of the two for loops
LoopBlocks(r1, r2) ==
    LET rows1 == Len(r1.matrix)
        cols1 == Len(r1.matrix[1])
    IN  [k \in 1..(rows1 * cols1) |->
            LET y == (k - 1) \div cols1
                x == (k - 1) % cols1
                i == RowStart(r1.gt, r2.gt, y)
                j == ColStart(r1.gt, r2.gt, x)
            IN  [y |-> y, x |-> x,
                 i |-> i, i_incr |-> RowEnd(r1.gt, r2.gt, i, r2.rows),
                 j |-> j, j_incr |-> ColEnd(r1.gt, r2.gt, j, r2.cols),
                 value |-> NanToNum(r1.matrix[y + 1][x + 1])]]

\* new_matrix[i:i_incr, j:j_incr] = matrix1[y, x]
Assign(m, b) ==
    [r \in DOMAIN m |->
        [c \in DOMAIN m[r] |->
            IF /\ (r - 1) \in PySlice(b.i, b.i_incr, Len(m))
               /\ (c - 1) \in PySlice(b.j, b.j_incr, Len(m[r]))
            THEN b.value ELSE m[r][c]]]

RECURSIVE Paint(_, _, _)
Paint(m, bs, k) ==
    IF k > Len(bs) THEN m ELSE Paint(Assign(m, bs[k]), bs, k + 1)

\* np.zeros(matrix2.shape)
Zeros(rows, cols) == [r \in 1..rows |-> [c \in 1..cols |-> 0]]

RasterResize ==
    /\ pc = "raster_resize"
    /\ blocks' = LoopBlocks(ras1, ras2)
    /\ new_matrix' = Paint(Zeros(ras2.rows, ras2.cols), blocks', 1)
    /\ pc' = "done"
    /\ UNCHANGED <<ras1, ras2, qvars, svars, ivars, dvars>>

\* source arrays: every cell its own value, the first cell possibly missing
SrcMatrix(rows, cols, missing) ==
    [r \in 1..rows |-> [c \in 1..cols |->
        IF missing /\ r = 1 /\ c = 1 THEN NaN ELSE (r - 1) * cols + c]]

InitResize ==
    /\ pc = "raster_resize"
    /\ \E rows \in 1..MaxSrc, cols \in 1..MaxSrc, missing \in BOOLEAN,
          x0 \in SrcOriginsX, w \in SrcWidths, y0 \in SrcOriginsY, h \in SrcHeights :
          ras1 = [matrix |-> SrcMatrix(rows, cols, missing),
                  gt |-> <<x0, w, 0, y0, 0, h>>]
    /\ \E rows \in 1..MaxDst, cols \in 1..MaxDst,
          x0 \in DstOriginsX, w \in DstWidths, y0 \in DstOriginsY, h \in DstHeights :
          ras2 = [rows |-> rows, cols |-> cols, gt |-> <<x0, w, 0, y0, 0, h>>]
    /\ blocks = <<>> /\ new_matrix = <<>>
    /\ QIdle /\ SIdle /\ IIdle /\ DIdle

NextResize == RasterResize

SpecResize == InitResize /\ [][NextResize]_vars

(***************************************************************************)
(* Properties of raster_resize.                                            *)
(***************************************************************************)
Sign(v) == IF v < 0 THEN -1 ELSE 1

\* max(0, offset + round(index * ratio)) times |p2|, where offset is
\* (t - s) / p2 and ratio is p1 / p2
StatedStart(t, s, p1, p2, index) ==
    Max(0, (t - s) * Sign(p2)
           + RoundHalfEven(index * p1 * Sign(p2), Abs(p2)) * Abs(p2))

\* min(start + ratio, dim) times |p2|
StatedEnd(start, p1, p2, dim) ==
    Min(start * Abs(p2) + p1 * Sign(p2), dim * Abs(p2))

\* C5 as stated: on both axes the block of a source cell starts at
\* max(0, offset + round(index * ratio)) and ends at min(start + ratio, dim),
\* offset = (target origin - source origin) / target pixel size.
C5_OffsetAdded ==
    pc = "done" =>
        \A k \in DOMAIN blocks :
            LET b == blocks[k]
                ds_1 == ras1.gt
                ds_2 == ras2.gt
            IN  /\ b.i * Abs(GT(ds_2, 5))
                     = StatedStart(GT(ds_2, 3), GT(ds_1, 3), GT(ds_1, 5), GT(ds_2, 5), b.y)
                /\ b.i_incr * Abs(GT(ds_2, 5))
                     = StatedEnd(b.i, GT(ds_1, 5), GT(ds_2, 5), ras2.rows)
                /\ b.j * Abs(GT(ds_2, 1))
                     = StatedStart(GT(ds_2, 0), GT(ds_1, 0), GT(ds_1, 1), GT(ds_2, 1), b.x)
                /\ b.j_incr * Abs(GT(ds_2, 1))
                     = StatedEnd(b.j, GT(ds_1, 1), GT(ds_2, 1), ras2.cols)

\* max(0, int(index * ratio) - int(offset))
TruncStart(t, s, p1, p2, index) ==
    Max(0, Trunc(index * p1, p2) - Trunc(t - s, p2))

\* C5 amended: on both axes alike the block starts at
\* max(0, int(index * ratio) - int(offset)) and ends at
\* min(start + int(ratio), dim), int() truncating toward zero: the offset
\* (target origin - source origin) / target pixel size is subtracted.
C5_OffsetSubtracted ==
    pc = "done" =>
        /\ Len(blocks) = Len(ras1.matrix) * Len(ras1.matrix[1])
        /\ \A k \in DOMAIN blocks :
            LET b == blocks[k]
                ds_1 == ras1.gt
                ds_2 == ras2.gt
            IN  /\ b.y = (k - 1) \div Len(ras1.matrix[1])
                /\ b.x = (k - 1) % Len(ras1.matrix[1])
                /\ b.i = TruncStart(GT(ds_2, 3), GT(ds_1, 3), GT(ds_1, 5), GT(ds_2, 5), b.y)
                /\ b.i_incr = Min(b.i + Trunc(GT(ds_1, 5), GT(ds_2, 5)), ras2.rows)
                /\ b.j = TruncStart(GT(ds_2, 0), GT(ds_1, 0), GT(ds_1, 1), GT(ds_2, 1), b.x)
                /\ b.j_incr = Min(b.j + Trunc(GT(ds_1, 1), GT(ds_2, 1)), ras2.cols)

C5_Witness ==
    /\ pc = "done" /\ Len(blocks) = 4
    /\ XOffset(ras1.gt, ras2.gt) < 0 /\ YOffset(ras1.gt, ras2.gt) > 0
    /\ GT(ras1.gt, 1) = 3 /\ GT(ras2.gt, 1) = 2
    /\ blocks[4].i > blocks[1].i /\ blocks[4].j > blocks[1].j
    /\ blocks[1].i > 0 /\ blocks[1].j > 0

\* C6: the result has the target's shape; a target cell holds the value of
\* the last source cell, in row-major order, whose block start..end-1
\* contains it, and 0 when there is none; an empty block (start >= end)
\* writes nothing.
C6_LastWriteWins ==
    pc = "done" =>
        /\ Len(new_matrix) = ras2.rows
        /\ \A r \in DOMAIN new_matrix : Len(new_matrix[r]) = ras2.cols
        /\ \A r \in 0..(ras2.rows - 1), c \in 0..(ras2.cols - 1) :
              LET cover == {k \in DOMAIN blocks :
                              /\ blocks[k].i <= r /\ r < blocks[k].i_incr
                              /\ blocks[k].j <= c /\ c < blocks[k].j_incr}
                  last == CHOOSE k \in cover : \A l \in cover : l <= k
              IN  new_matrix[r + 1][c + 1] =
                     IF cover = {} THEN 0
                     ELSE NanToNum(ras1.matrix[blocks[last].y + 1][blocks[last].x + 1])

====
